---- MODULE Spec2Model ----
(***************************************************************************)
(* ngx-signals-plus: the bindable signal (bindable-signal.ts) and the      *)
(* event signal (event-signal.ts) as state machines.                       *)
(*                                                                         *)
(* Part 1 models bindable(): the closure variables bound, effectRef,       *)
(* subscription and injector, the held signal value, and the environment   *)
(* the cell lives in: its sources (a Subject, a BehaviorSubject and two    *)
(* signals), the effect scheduler and the DestroyRef of its scope.         *)
(***************************************************************************)
EXTENDS Integers, FiniteSets, Sequences, TLC

\* ---------------------------------------------------------------- bounds
MaxBinds == 2

\* the values a source can carry; the cell is created with InitialValue
InitialValue == "initialValue"
Vals == {InitialValue, "newValue"}

\* the sources a cell can be bound to
Streams == {"subject", "behavior"}
Cells == {"sigA", "sigB"}
Sources == Streams \cup Cells
NoSource == "none"

\* a BehaviorSubject replays its current value to a new subscriber
ReplaysMut(s) == FALSE
Replays(s) == s = "behavior"

VARIABLES
  options,          \* the options object given to bindable()
  inInjectionContext, \* bindable() was called in an injection context
  created,          \* FALSE when bindable() threw
  injector,         \* TRUE when the closure variable injector is defined
  bindableSignal,   \* the held value
  bound,
  effectRef,        \* 0 (undefined) or the id of the effect it refers to
  subscription,     \* 0 (undefined) or the id of the subscription
  handles,          \* the live (not yet cancelled) subscriptions and effects
  nextId,
  streamCur,        \* the current value of the BehaviorSubject
  streamDone,       \* the streams that completed or errored
  cellVal,          \* the values of the source signals
  destroyed,        \* the scope's onDestroy callbacks have run
  bLast,            \* the last operation on the cell and its outcome
  boundSrc,         \* the source of the last successful bindTo
  prevSrc,          \* the source of the binding before that
  reboundAfterDestroy

bvars == <<options, inInjectionContext, created, injector, bindableSignal, bound, effectRef,
           subscription, handles, nextId, streamCur, streamDone, cellVal,
           destroyed, bLast, boundSrc, prevSrc, reboundAfterDestroy>>

OptionSets == [destroyRef : BOOLEAN, injector : BOOLEAN, manualCleanup : BOOLEAN]

\* an effect is scheduled for its first run when it is created (dirty)
HandleMut(id, kind, src, auto, dirty) ==
  [id |-> id, kind |-> kind, src |-> src, auto |-> auto, dirty |-> FALSE]
Handle(id, kind, src, auto, dirty) ==
  [id |-> id, kind |-> kind, src |-> src, auto |-> auto, dirty |-> dirty]

\* arg: the value of an emission; for bindTo, whether it was called inside a
\* reactive context
NoArg == "-"
BOp(op, src, arg, threw) == [op |-> op, src |-> src, arg |-> arg, threw |-> threw]

\* assertNoDestroyRefOrInjectorProvidedWithManualCleanup
AssertNoDestroyRefOrInjectorProvidedWithManualCleanupMut(o) == TRUE
AssertNoDestroyRefOrInjectorProvidedWithManualCleanup(o) ==
  ~(o.manualCleanup /\ (o.destroyRef \/ o.injector))

\* bindable(): the injector is captured only when neither a destroyRef nor
\* manualCleanup was given; inject(Injector) throws outside an injection context
NeedsInjectorMut(o) == FALSE
NeedsInjector(o) == ~o.destroyRef /\ ~o.manualCleanup

BindableCreated(o, inCtx) ==
  /\ AssertNoDestroyRefOrInjectorProvidedWithManualCleanup(o)
  /\ (NeedsInjector(o) => (o.injector \/ inCtx))

BInit ==
  /\ options \in OptionSets
  /\ inInjectionContext \in BOOLEAN
  /\ created = BindableCreated(options, inInjectionContext)
  /\ injector = (created /\ NeedsInjector(options))
  /\ bindableSignal = InitialValue
  /\ bound = FALSE
  /\ effectRef = 0
  /\ subscription = 0
  /\ handles = {}
  /\ nextId = 1
  /\ streamCur = InitialValue
  /\ streamDone = {}
  /\ cellVal = [c \in Cells |-> InitialValue]
  /\ destroyed = FALSE
  /\ bLast = BOp("create", NoSource, NoArg, ~created)
  /\ boundSrc = NoSource
  /\ prevSrc = NoSource
  /\ reboundAfterDestroy = FALSE

\* ------------------------------------------------------------ bindTo
\* if (bound) throw
AlreadyBoundMut == FALSE
AlreadyBound == bound

\* options.manualCleanup === true ? pipe() : takeUntilDestroyed(destroyRef)
TakeUntilDestroyedWiredMut == FALSE
TakeUntilDestroyedWired == ~options.manualCleanup

\* What registering with a DestroyRef that was already destroyed does depends
\* on the framework version and on the kind of injector: the registration
\* throws, is accepted but never served ("inert": the effect is never run, the
\* stream is closed at once), or is accepted and the callback never called
\* ("live": nothing cancels it any more).
LateOutcomes == {"throw", "inert", "live"}

BThrow(op, src, arg) ==
  /\ bLast' = BOp(op, src, arg, TRUE)
  /\ UNCHANGED <<options, inInjectionContext, created, injector, bindableSignal, bound, effectRef,
                 subscription, handles, nextId, streamCur, streamDone, cellVal,
                 destroyed, boundSrc, prevSrc, reboundAfterDestroy>>

BindOk(src) ==
  /\ bound' = TRUE
  /\ nextId' = nextId + 1
  /\ boundSrc' = src
  /\ prevSrc' = boundSrc
  /\ reboundAfterDestroy' = (reboundAfterDestroy \/ destroyed)
  /\ UNCHANGED <<options, inInjectionContext, created, injector, streamCur, streamDone, cellVal, destroyed>>

\* if (injector === undefined) throw
InjectorUndefinedMut == FALSE
InjectorUndefined == ~injector

\* effectRef = effect(() => bindableSignal.set(source()), {injector, ...})
BindToSignal(src, late) ==
  IF InjectorUndefined THEN BThrow("bindTo", src, "plain")
  ELSE IF destroyed /\ late = "throw" THEN BThrow("bindTo", src, "plain")
  ELSE /\ effectRef' = nextId
       /\ handles' = IF destroyed /\ late = "inert" THEN handles
                     ELSE handles \cup {Handle(nextId, "effect", src, ~destroyed, TRUE)}
       /\ bLast' = BOp("bindTo", src, "plain", FALSE)
       /\ BindOk(src)
       /\ UNCHANGED <<bindableSignal, subscription>>

\* subscription = source.pipe(operatorFunction).subscribe(v => bindableSignal.set(v))
BindToObservable(src, late) ==
  LET wired == TakeUntilDestroyedWired
      closedAtOnce == \/ src \in streamDone
                      \/ (wired /\ destroyed /\ late # "live")
      replay == ~closedAtOnce /\ Replays(src)
  IN /\ subscription' = nextId
     /\ handles' = IF closedAtOnce THEN handles
                   ELSE handles \cup {Handle(nextId, "sub", src, wired /\ ~destroyed, FALSE)}
     /\ bindableSignal' = IF replay THEN streamCur ELSE bindableSignal
     /\ bLast' = BOp("bindTo", src, "plain", FALSE)
     /\ BindOk(src)
     /\ UNCHANGED effectRef

\* assertNotInReactiveContext(bindTo, ...) throws
AssertNotInReactiveContextThrowsMut(inReactiveContext) == FALSE
AssertNotInReactiveContextThrows(inReactiveContext) == inReactiveContext

BindTo(src, inReactiveContext, late) ==
  /\ created
  /\ nextId <= MaxBinds
  /\ IF AssertNotInReactiveContextThrows(inReactiveContext)
       THEN BThrow("bindTo", src, "reactive")
     ELSE IF AlreadyBound THEN BThrow("bindTo", src, "plain")
     ELSE IF src \in Cells THEN BindToSignal(src, late)
     ELSE BindToObservable(src, late)

\* ------------------------------------------------------------ unbind
\* effectRef.destroy() / subscription.unsubscribe()
CancelHandleMut(hs, id) == hs
CancelHandle(hs, id) == {h \in hs : h.id # id}

\* the else branch of unbind: neither an effect nor a subscription is held
UnbindThrowsMut == FALSE
UnbindThrows == effectRef = 0 /\ subscription = 0

Unbind ==
  /\ created
  /\ IF UnbindThrows THEN BThrow("unbind", NoSource, NoArg)
     ELSE /\ IF effectRef # 0
             THEN /\ handles' = CancelHandle(handles, effectRef)
                  /\ effectRef' = 0
                  /\ UNCHANGED subscription
             ELSE /\ handles' = CancelHandle(handles, subscription)
                  /\ subscription' = 0
                  /\ UNCHANGED effectRef
          /\ bound' = FALSE
          /\ bLast' = BOp("unbind", boundSrc, NoArg, FALSE)
          /\ UNCHANGED <<options, inInjectionContext, created, injector, bindableSignal, nextId,
                         streamCur, streamDone, cellVal, destroyed, boundSrc,
                         prevSrc, reboundAfterDestroy>>

\* ------------------------------------------------------- environment
\* the cell has a live subscription to the stream s
SubscribedMut(s) == FALSE
Subscribed(s) == \E h \in handles : h.kind = "sub" /\ h.src = s

\* source.next(v): delivered synchronously to every live subscription
Emit(s, v) ==
  /\ created
  /\ s \in Streams /\ s \notin streamDone
  /\ streamCur' = IF Replays(s) THEN v ELSE streamCur
  /\ bindableSignal' = IF Subscribed(s) THEN v ELSE bindableSignal
  /\ bLast' = BOp("emit", s, v, FALSE)
  /\ UNCHANGED <<options, inInjectionContext, created, injector, bound, effectRef, subscription,
                 handles, nextId, streamDone, cellVal, destroyed, boundSrc,
                 prevSrc, reboundAfterDestroy>>

\* the stream completes or errors (take, takeUntil, an upstream failure)
TerminateMut(s) ==
  /\ created
  /\ s \in Streams /\ s \notin streamDone
  /\ streamDone' = streamDone \cup {s}
  /\ handles' = {h \in handles : ~(h.kind = "sub" /\ h.src = s)}
  /\ subscription' = IF \E h \in handles : h.id = subscription /\ h.src = s
                     THEN 0 ELSE subscription
  /\ bLast' = BOp("terminate", s, NoArg, FALSE)
  /\ UNCHANGED <<options, inInjectionContext, created, injector, bindableSignal,
                 bound, effectRef, nextId, streamCur, cellVal, destroyed,
                 boundSrc, prevSrc, reboundAfterDestroy>>
Terminate(s) ==
  /\ created
  /\ s \in Streams /\ s \notin streamDone
  /\ streamDone' = streamDone \cup {s}
  /\ handles' = {h \in handles : ~(h.kind = "sub" /\ h.src = s)}
  /\ bLast' = BOp("terminate", s, NoArg, FALSE)
  /\ UNCHANGED <<options, inInjectionContext, created, injector, bindableSignal, bound, effectRef,
                 subscription, nextId, streamCur, cellVal, destroyed, boundSrc,
                 prevSrc, reboundAfterDestroy>>

\* source.set(v): the effects reading the signal are marked dirty
SetCell(c, v) ==
  /\ created
  /\ c \in Cells /\ v # cellVal[c]
  /\ cellVal' = [cellVal EXCEPT ![c] = v]
  /\ handles' = {IF h.kind = "effect" /\ h.src = c
                 THEN [h EXCEPT !.dirty = TRUE] ELSE h : h \in handles}
  /\ bLast' = BOp("set", c, NoArg, FALSE)
  /\ UNCHANGED <<options, inInjectionContext, created, injector, bindableSignal, bound, effectRef,
                 subscription, nextId, streamCur, streamDone, destroyed, boundSrc,
                 prevSrc, reboundAfterDestroy>>

\* the scheduler runs a dirty effect: bindableSignal.set(source())
RunEffect(h) ==
  /\ h \in handles /\ h.kind = "effect" /\ h.dirty
  /\ bindableSignal' = cellVal[h.src]
  /\ handles' = (handles \ {h}) \cup {[h EXCEPT !.dirty = FALSE]}
  /\ bLast' = BOp("run", h.src, NoArg, FALSE)
  /\ UNCHANGED <<options, inInjectionContext, created, injector, bound, effectRef, subscription,
                 nextId, streamCur, streamDone, cellVal, destroyed, boundSrc,
                 prevSrc, reboundAfterDestroy>>

\* the scope ends (or its onDestroy callbacks are called once more): what was
\* registered with the DestroyRef is cancelled
Teardown ==
  /\ created
  /\ handles' = {h \in handles : ~h.auto}
  /\ destroyed' = TRUE
  /\ bLast' = BOp("teardown", NoSource, NoArg, FALSE)
  /\ UNCHANGED <<options, inInjectionContext, created, injector, bindableSignal, bound, effectRef,
                 subscription, nextId, streamCur, streamDone, cellVal, boundSrc,
                 prevSrc, reboundAfterDestroy>>

(***************************************************************************)
(* Part 2 models signalFromEvent(): the closure variables of the event     *)
(* signal, the three effects and the throttled re-attachment it sets up,   *)
(* and its environment: the target and event-name signals, the activator   *)
(* (true, a Signal<boolean>, a Subject or a BehaviorSubject), the          *)
(* listeners the elements hold, the effect scheduler and the DestroyRef of *)
(* the injector.                                                           *)
(***************************************************************************)
\* the number of target and event-name changes a run makes
MaxChanges == 2

Undefined == "undefined"
Elements == {"el1", "el2"}
\* an ElementRef whose nativeElement is undefined
EmptyRef == "emptyRef"
TargetVals == {Undefined, EmptyRef} \cup Elements
NativeElement(t) == IF t \in Elements THEN t ELSE Undefined

EventNames == {"mousedown", "mouseup"}
\* a name or a collection of names
EventNameVals == (SUBSET EventNames) \ {{}}
\* previousListener.eventName when previousListener does not give it
NoEventName == {}

\* the Event objects dispatched; every dispatch is a new object
Events == {"ev1", "ev2"}

\* no event delivered yet
NoEvent == "none"

\* options.resultSelector: not supplied, or a function of the event
Selectors == {"none", "select"}
\* what the supplied function returns for an event
Selected(event) == IF event = "ev1" THEN "r1" ELSE "r2"
\* options.initialValue: not supplied, or a value
InitialValues == {Undefined, "initial"}
\* the options of signalFromEvent the delivery of an event depends on
EventOptions ==
  [tap : BOOLEAN, resultSelector : Selectors, initialValue : InitialValues]
NoOptions == [tap |-> FALSE, resultSelector |-> "none", initialValue |-> Undefined]

ActivatorStreams == {"subject", "behavior"}
ActivatorKinds == {"signal"} \cup ActivatorStreams
NoActivator == "none"

\* the effects signalFromEvent creates
Effects == {"listenerChange", "eventNameChange", "activator"}
\* the orders in which a flush of the scheduler can run the effects es
EffectOrders(es) ==
  {o \in [1..Cardinality(es) -> es] : \A e \in es : \E i \in DOMAIN o : o[i] = e}

VARIABLES
  eOptions,                \* options: tap, resultSelector, initialValue
  calls,                   \* what the last run of eventListener called, in order
  delivered,               \* the last event eventListener ran for, or NoEvent
  eventSignal,             \* the held value
  activatorAttached,
  listening,               \* listener.listening
  activatorEffectRef,      \* effectRef: NoActivator (undefined) or "signal"
  activatorSubscription,   \* subscription: NoActivator (undefined) or the stream
  activatorProxy,
  throttled,               \* activateProxySource has a trailing emission pending
  previousListenerTarget,
  previousEventName,
  listenerTarget,          \* the value of the target signal
  eventNameSignal,         \* the value of the event-name signal
  kind,                    \* the activator the component has besides true:
                           \* "signal", "subject" or "behavior" (a BehaviorSubject)
  gate,                    \* its value: the signal's, the BehaviorSubject's, or
                           \* the Subject's last emission (FALSE before the first)
  updaters,                \* the live activator effect / subscription, by source
  dirty,                   \* the effects scheduled to run
  registered,              \* the <<element, name>> pairs eventListener is added for
  eDestroyed,              \* the injector's onDestroy callbacks have run
  eLast,                   \* the last operation and its outcome
  phase,                   \* "fresh", "attached" (attachActivator accepted) or "deactivated"
  stable,                  \* no target or event-name change since attachActivator,
                           \* and none awaiting its effect when it was called
  changes,                 \* the target and event-name changes made so far
  cycle                    \* what changed while the listener was on, until the
                           \* listener is on again: "none", "name", "target", "both"

evars == <<eOptions, calls, delivered, eventSignal, activatorAttached, listening, activatorEffectRef,
           activatorSubscription, activatorProxy, throttled, previousListenerTarget,
           previousEventName, listenerTarget, eventNameSignal, kind, gate,
           updaters, dirty, registered, eDestroyed, eLast, phase, stable, changes,
           cycle>>


\* resultSelector: options.resultSelector, or the cast of the event itself
resultSelector(event) ==
  IF eOptions.resultSelector = "none" THEN event ELSE Selected(event)

\* eventListener with the calls in the other order
eventListenerMut(event) ==
  [calls |-> <<"resultSelector", "set">>
               \o (IF eOptions.tap THEN <<"tap">> ELSE <<>>),
   set |-> resultSelector(event)]

\* eventListener(event): the functions it calls, in order, and the value it
\* sets the held value to
eventListener(event) ==
  [calls |-> (IF eOptions.tap THEN <<"tap">> ELSE <<>>)
               \o <<"resultSelector", "set">>,
   set |-> resultSelector(event)]

\* removed: the elements removeEventListener was called on during the operation
EOp(op, threw, removed) == [op |-> op, threw |-> threw, removed |-> removed]

\* the state the listener functions, the effects and attachActivator work on
Work ==
  [listening |-> listening, registered |-> registered, removed |-> {},
   throttled |-> throttled, previousListenerTarget |-> previousListenerTarget,
   previousEventName |-> previousEventName]

\* target !== undefined && listener.listening === false
CanAddMut(W, target) == FALSE
CanAdd(W, target) == target # Undefined /\ ~W.listening

\* addEventListenerToTarget(listener)
AddEventListenerToTarget(W) ==
  LET target == NativeElement(listenerTarget)
  IN IF CanAdd(W, target)
     THEN [W EXCEPT !.registered = @ \cup ({target} \X eventNameSignal),
                    !.listening = TRUE]
     ELSE W

\* the element removeEventListenerFromTarget(listener, previousListener) works on
RemoveTarget(prevTarget) ==
  IF prevTarget # Undefined THEN prevTarget ELSE NativeElement(listenerTarget)

\* removeEventListenerFromTarget(listener, previousListener): prevTarget is
\* Undefined and prevName is NoEventName when previousListener does not give them
RemoveEventListenerFromTargetMut(W, prevTarget, prevName) ==
  LET target == RemoveTarget(prevTarget)
      eventName == IF prevName # NoEventName THEN prevName ELSE eventNameSignal
  IN IF target # Undefined
     THEN [W EXCEPT !.registered = @ \ ({target} \X eventName),
                    !.removed = @ \cup {target},
                    !.listening = FALSE]
     ELSE [W EXCEPT !.listening = FALSE]
RemoveEventListenerFromTarget(W, prevTarget, prevName) ==
  LET target == RemoveTarget(prevTarget)
      eventName == IF prevName # NoEventName THEN prevName ELSE eventNameSignal
  IN IF target # Undefined /\ W.listening
     THEN [W EXCEPT !.registered = @ \ ({target} \X eventName),
                    !.removed = @ \cup {target},
                    !.listening = FALSE]
     ELSE [W EXCEPT !.listening = FALSE]

\* addOrRemoveEventListener(activate, listener)
AddOrRemoveEventListener(activate, W) ==
  IF activate THEN AddEventListenerToTarget(W)
  ELSE RemoveEventListenerFromTarget(W, Undefined, NoEventName)

\* terminateUpdaters(): the updaters left alive
TerminateUpdaters(us) ==
  IF activatorEffectRef # NoActivator THEN us \ {activatorEffectRef}
  ELSE IF activatorSubscription # NoActivator THEN us \ {activatorSubscription}
  ELSE us

\* if (activatorAttached) throw
AttachGuardMut == FALSE
AttachGuard == activatorAttached

\* attachActivator(activator) past the guard, as a record of the new values.
\* late: what effect() does when the injector was destroyed before (see
\* LateOutcomes).
AttachBody(activator, late) ==
  LET us == TerminateUpdaters(updaters)
      W0 == Work
      base == [threw |-> "no",
               effectRef |-> NoActivator,
               subscription |-> IF activatorEffectRef # NoActivator
                                THEN activatorSubscription ELSE NoActivator,
               updaters |-> us, dirty |-> dirty \ {"activator"}, W |-> W0]
  IN IF listenerTarget = Undefined THEN base
     ELSE IF activator = "true"
          THEN [base EXCEPT !.W = AddEventListenerToTarget(W0)]
     ELSE IF activator = "signal"
          THEN IF eDestroyed /\ late = "throw" THEN [base EXCEPT !.threw = "effect"]
               ELSE IF eDestroyed /\ late = "inert"
                    THEN [base EXCEPT !.effectRef = "signal"]
               ELSE [base EXCEPT !.effectRef = "signal",
                                 !.updaters = us \cup {"signal"},
                                 !.dirty = dirty \cup {"activator"}]
     ELSE [base EXCEPT !.subscription = activator,
                       !.updaters = us \cup {activator},
                       !.W = IF activator = "behavior"
                             THEN AddOrRemoveEventListener(gate, W0)
                             ELSE W0]

ApplyAttach(r, activator) ==
  /\ activatorAttached' = TRUE
  /\ activatorProxy' = activator
  /\ activatorEffectRef' = r.effectRef
  /\ activatorSubscription' = r.subscription
  /\ updaters' = r.updaters
  /\ dirty' = (IF "signal" \in r.updaters THEN r.dirty ELSE r.dirty \ {"activator"})
  /\ listening' = r.W.listening
  /\ registered' = r.W.registered

\* the state signalFromEvent() returns in. The two watcher effects are
\* scheduled for their first run; options.activate === true calls
\* attachActivator(true) during construction. (Elements and names are
\* interchangeable, so the initial target is el1 or undefined and the initial
\* names are one name or both.)
EInit ==
  /\ eventSignal = eOptions.initialValue
  /\ calls = <<>>
  /\ delivered = NoEvent
  /\ listenerTarget \in {Undefined, "el1"}
  /\ eventNameSignal \in {{"mousedown"}, EventNames}
  /\ previousListenerTarget = listenerTarget
  /\ previousEventName = eventNameSignal
  /\ kind \in ActivatorKinds
  /\ gate = FALSE
  /\ activatorEffectRef = NoActivator
  /\ activatorSubscription = NoActivator
  /\ updaters = {}
  /\ throttled = FALSE
  /\ dirty = {"listenerChange", "eventNameChange"}
  /\ eDestroyed = FALSE
  /\ stable = TRUE
  /\ changes = 0
  /\ cycle = "none"
  /\ \E activate \in BOOLEAN :
       /\ activatorAttached = activate
       /\ activatorProxy = IF activate THEN "true" ELSE NoActivator
       /\ phase = IF activate THEN "attached" ELSE "fresh"
       /\ listening = (activate /\ NativeElement(listenerTarget) # Undefined)
       /\ registered = IF listening
                       THEN {NativeElement(listenerTarget)} \X eventNameSignal ELSE {}
       /\ eLast = EOp("create", "no", {})

\* ------------------------------------------------ attachActivator, deactivate
\* no change of the event name or of the target awaits its watcher effect
NoChangePending ==
  /\ previousEventName = eventNameSignal
  /\ "listenerChange" \in dirty => previousListenerTarget = listenerTarget

AttachActivator(activator, late) ==
  IF AttachGuard
  THEN /\ eLast' = EOp("attachActivator", "alreadyAttached", {})
       /\ UNCHANGED <<eOptions, calls, delivered, eventSignal, activatorAttached, listening, activatorEffectRef,
                      activatorSubscription, activatorProxy, throttled,
                      previousListenerTarget, previousEventName, listenerTarget,
                      eventNameSignal, kind, gate, updaters, dirty, registered,
                      eDestroyed, phase, stable, changes, cycle>>
  ELSE LET r == AttachBody(activator, late)
       IN /\ ApplyAttach(r, activator)
          /\ eLast' = EOp("attachActivator", r.threw, r.W.removed)
          /\ phase' = "attached"
          /\ stable' = NoChangePending
          /\ cycle' = "none"
          /\ UNCHANGED <<eOptions, calls, delivered, eventSignal, throttled, previousListenerTarget,
                         previousEventName, listenerTarget, eventNameSignal,
                         kind, gate, eDestroyed, changes>>

\* deactivate(): removeEventListenerFromTarget(listener), on the current target
DeactivateListener == RemoveEventListenerFromTarget(Work, Undefined, NoEventName)

\* deactivate(), also called by the onDestroy callback; us: the updaters alive
\* when it is called
DeactivateBody(us) ==
  /\ updaters' = TerminateUpdaters(us)
  /\ activatorEffectRef' = NoActivator
  /\ activatorSubscription' =
       IF activatorEffectRef # NoActivator THEN activatorSubscription ELSE NoActivator
  /\ listening' = DeactivateListener.listening
  /\ registered' = DeactivateListener.registered
  /\ activatorAttached' = FALSE
  /\ activatorProxy' = NoActivator
  /\ phase' = "deactivated"
  /\ stable' = TRUE
  /\ cycle' = "none"
\* a deactivate() that puts the initial value back
DeactivateMut ==
  /\ DeactivateBody(updaters)
  /\ dirty' = (IF "signal" \in updaters' THEN dirty ELSE dirty \ {"activator"})
  /\ eLast' = EOp(IF activatorAttached THEN "deactivate" ELSE "deactivateDetached",
                  "no", DeactivateListener.removed)
  /\ UNCHANGED <<eOptions, calls, delivered, throttled, previousListenerTarget, previousEventName,
                 listenerTarget, eventNameSignal, kind, gate, eDestroyed, changes>>
  /\ eventSignal' = eOptions.initialValue

Deactivate ==
  /\ DeactivateBody(updaters)
  /\ dirty' = (IF "signal" \in updaters' THEN dirty ELSE dirty \ {"activator"})
  /\ eLast' = EOp(IF activatorAttached THEN "deactivate" ELSE "deactivateDetached",
                  "no", DeactivateListener.removed)
  /\ UNCHANGED <<eOptions, calls, delivered, eventSignal, throttled, previousListenerTarget, previousEventName,
                 listenerTarget, eventNameSignal, kind, gate, eDestroyed, changes>>

\* ------------------------------------------------------------ the effects
\* listenerChangeEffectRef
ListenerChangeEffect(W) ==
  IF ~activatorAttached \/ W.previousListenerTarget = listenerTarget THEN W
  ELSE IF listenerTarget # Undefined
       THEN LET prev == NativeElement(W.previousListenerTarget)
                W1 == IF prev # Undefined
                      THEN RemoveEventListenerFromTarget(W, prev, NoEventName)
                      ELSE W
            IN [W1 EXCEPT !.throttled = TRUE,
                          !.previousListenerTarget = listenerTarget]
       ELSE [W EXCEPT !.listening = FALSE,
                      !.previousListenerTarget = listenerTarget]

\* eventNameChangeEffectRef
EventNameChangeEffect(W) ==
  IF eventNameSignal # W.previousEventName
  THEN [RemoveEventListenerFromTarget(W, Undefined, W.previousEventName)
          EXCEPT !.throttled = TRUE, !.previousEventName = eventNameSignal]
  ELSE W

\* the effect attachActivator creates for a Signal<boolean>; it reads the
\* activator, the target and the event name
ActivatorEffect(W) == AddOrRemoveEventListener(gate, W)

RunEffect1(e, W) ==
  IF e = "listenerChange" THEN ListenerChangeEffect(W)
  ELSE IF e = "eventNameChange" THEN EventNameChangeEffect(W)
  ELSE ActivatorEffect(W)

\* the effects of order run one after the other
RunEffects(order) ==
  LET W1 == IF Len(order) >= 1 THEN RunEffect1(order[1], Work) ELSE Work
      W2 == IF Len(order) >= 2 THEN RunEffect1(order[2], W1) ELSE W1
  IN IF Len(order) >= 3 THEN RunEffect1(order[3], W2) ELSE W2

\* the scheduler flushes: every scheduled effect runs, in some order, before
\* any other code does
Flush(order) ==
  /\ dirty # {}
  /\ LET W == RunEffects(order)
     IN /\ listening' = W.listening
        /\ registered' = W.registered
        /\ throttled' = W.throttled
        /\ previousListenerTarget' = W.previousListenerTarget
        /\ previousEventName' = W.previousEventName
        /\ eLast' = EOp("other", "no", W.removed)
        /\ cycle' = (IF W.listening /\ ~W.throttled THEN "none" ELSE cycle)
  /\ dirty' = {}
  /\ UNCHANGED <<eOptions, calls, delivered, eventSignal, activatorAttached, activatorEffectRef,
                 activatorSubscription, activatorProxy, listenerTarget,
                 eventNameSignal, kind, gate, updaters, eDestroyed, phase, stable,
                 changes>>

\* the subscriber of activateProxySource, after throttleTime(0, trailing)
ThrottleFire(late) ==
  /\ throttled
  /\ throttled' = FALSE
  /\ IF activatorProxy # NoActivator
     THEN LET r == AttachBody(activatorProxy, late)
          IN /\ ApplyAttach(r, activatorProxy)
             /\ eLast' = EOp("other", r.threw, r.W.removed)
     ELSE /\ eLast' = EOp("other", "no", {})
          /\ UNCHANGED <<activatorAttached, listening, activatorEffectRef,
                         activatorSubscription, activatorProxy, updaters, dirty,
                         registered>>
  /\ cycle' = (IF listening' THEN "none" ELSE cycle)
  /\ UNCHANGED <<eOptions, calls, delivered, eventSignal, previousListenerTarget, previousEventName,
                 listenerTarget, eventNameSignal, kind, gate, eDestroyed, phase,
                 stable, changes>>

\* ------------------------------------------------------------ environment
\* the effects a change of the target or of the event name schedules: its
\* watcher and the activator effect (a re-run of the other watcher, which may
\* have read the signal in removeEventListenerFromTarget, finds its own
\* signal unchanged and returns)
Scheduled(watcher) ==
  IF eDestroyed THEN dirty \cup (IF "signal" \in updaters THEN {"activator"} ELSE {})
  ELSE dirty \cup {watcher} \cup (IF "signal" \in updaters THEN {"activator"} ELSE {})

\* the changes made while the listener was on, what joining them
Changed(what) ==
  IF ~(activatorAttached /\ listening) \/ cycle = what THEN cycle
  ELSE IF cycle = "none" THEN what ELSE "both"

\* the target signal changes (a view child appears, disappears, is replaced)
SetTarget(t) ==
  /\ t # listenerTarget
  /\ changes < MaxChanges
  /\ changes' = changes + 1
  /\ listenerTarget' = t
  /\ cycle' = Changed("target")
  /\ dirty' = Scheduled("listenerChange")
  /\ stable' = (phase # "attached")
  /\ eLast' = EOp("other", "no", {})
  /\ UNCHANGED <<eOptions, calls, delivered, eventSignal, activatorAttached, listening, activatorEffectRef,
                 activatorSubscription, activatorProxy, throttled,
                 previousListenerTarget, previousEventName, eventNameSignal,
                 kind, gate, updaters, registered, eDestroyed, phase>>

\* the event-name signal changes
SetEventName(n) ==
  /\ n # eventNameSignal
  /\ changes < MaxChanges
  /\ changes' = changes + 1
  /\ eventNameSignal' = n
  /\ cycle' = Changed("name")
  /\ dirty' = Scheduled("eventNameChange")
  /\ stable' = (phase # "attached")
  /\ eLast' = EOp("other", "no", {})
  /\ UNCHANGED <<eOptions, calls, delivered, eventSignal, activatorAttached, listening, activatorEffectRef,
                 activatorSubscription, activatorProxy, throttled,
                 previousListenerTarget, previousEventName, listenerTarget,
                 kind, gate, updaters, registered, eDestroyed, phase>>

\* the activator changes: activator.set(b) schedules the effect, activator.next(b)
\* is delivered synchronously to the subscription attachActivator made, if it
\* is still open
SetGate(b) ==
  /\ kind = "signal" => b # gate
  /\ gate' = b
  /\ dirty' = (IF "signal" \in updaters THEN dirty \cup {"activator"} ELSE dirty)
  /\ LET W == IF kind \in ActivatorStreams /\ kind \in updaters
              THEN AddOrRemoveEventListener(b, Work) ELSE Work
     IN /\ listening' = W.listening
        /\ registered' = W.registered
        /\ eLast' = EOp("other", "no", W.removed)
  /\ UNCHANGED <<eOptions, calls, delivered, eventSignal, activatorAttached, activatorEffectRef,
                 activatorSubscription, activatorProxy, throttled,
                 previousListenerTarget, previousEventName, listenerTarget,
                 eventNameSignal, kind, updaters, eDestroyed, phase, stable,
                 changes, cycle>>

\* element.dispatchEvent(event), event a new Event object: eventListener runs
\* if it is added to the element for the name
Dispatch(el, name, event) ==
  /\ event # delivered
  /\ IF <<el, name>> \in registered
       THEN /\ calls' = eventListener(event).calls
            /\ eventSignal' = eventListener(event).set
            /\ delivered' = event
       ELSE UNCHANGED <<calls, eventSignal, delivered>>
  /\ eLast' = EOp("other", "no", {})
  /\ UNCHANGED <<eOptions, activatorAttached, listening, activatorEffectRef,
                 activatorSubscription, activatorProxy, throttled,
                 previousListenerTarget, previousEventName, listenerTarget,
                 eventNameSignal, kind, gate, updaters, dirty, registered,
                 eDestroyed, phase, stable, changes, cycle>>

\* the injector is destroyed: the onDestroy callback calls deactivate() and
\* destroys the two watcher effects; takeUntilDestroyed ends the throttled
\* re-attachment; the activator effect is destroyed with its injector
ETeardown ==
  /\ ~eDestroyed
  /\ DeactivateBody(updaters \ {"signal"})
  /\ dirty' = {}
  /\ throttled' = FALSE
  /\ eDestroyed' = TRUE
  /\ eLast' = EOp("teardown", "no", DeactivateListener.removed)
  /\ UNCHANGED <<eOptions, calls, delivered, eventSignal, previousListenerTarget, previousEventName,
                 listenerTarget, eventNameSignal, kind, gate, changes>>

\* what effect() can do in the current state: the outcomes differ only once
\* the injector is destroyed
Late == IF eDestroyed THEN LateOutcomes ELSE {"live"}

\* an Event object not dispatched before
NewEvent == CHOOSE e \in Events : e # delivered

(***************************************************************************)
(* Part 3 models toBehaviorObservable(): two observables made from the     *)
(* same source signal with the same injector, each the pipe                *)
(* subject -> lazyStartWith -> tap -> shareReplay(1, refCount), with two   *)
(* subscribers each, the watcher effects, and the DestroyRef of the        *)
(* injector.                                                               *)
(***************************************************************************)
\* the number of changes of the source signal a run makes
MaxSets == 2

SourceVals == {"initialValue", "newValue"}
Observables == {"obs1", "obs2"}
Subscribers == {"sub1", "sub2"}

\* a value the stream emits, with the state of the source signal (the number
\* of changes made to it) it was read in
Emission(val, ver) == [val |-> val, ver |-> ver]

VARIABLES
  source,          \* the value of the source signal
  sourceVersion,   \* the changes made to it so far
  watcher,         \* per observable: "undefined", "scheduled", "idle", "destroyed"
  skipFirst,       \* per observable: skipFirst of the current connection
  initialValue,    \* per observable: the closure variable initialValue
  connected,       \* per observable: shareReplay is subscribed to the pipe
  replayed,        \* per observable: the buffer of shareReplay's ReplaySubject
  hasCompleted,    \* per observable: shareReplay has seen the pipe complete
  subscribers,     \* per observable and subscriber: state ("off", "on",
                   \* "completed", "errored") and the emissions received
  oDestroyed,      \* the injector's onDestroy callbacks have run
  destroyedAt      \* history: the changes made to the source before that

ovars == <<source, sourceVersion, watcher, skipFirst, initialValue, connected,
           replayed, hasCompleted, subscribers, oDestroyed, destroyedAt>>

NoSubscriber == [state |-> "off", got |-> <<>>]

OInit ==
  /\ source \in SourceVals
  /\ sourceVersion = 0
  /\ watcher = [o \in Observables |-> "undefined"]
  /\ skipFirst = [o \in Observables |-> TRUE]
  /\ initialValue = [o \in Observables |-> Undefined]
  /\ connected = [o \in Observables |-> FALSE]
  /\ replayed = [o \in Observables |-> <<>>]
  /\ hasCompleted = [o \in Observables |-> FALSE]
  /\ subscribers = [o \in Observables |-> [k \in Subscribers |-> NoSubscriber]]
  /\ oDestroyed = FALSE
  /\ destroyedAt = 0

\* the subscribers of o that are subscribed and not completed
Active(o) == {k \in Subscribers : subscribers[o][k].state = "on"}

\* lazyStartWith(() => { initialValue = source(); return initialValue; }):
\* what the factory returns when the pipe is subscribed to
StartValue == source

\* the effect's condition for subject.next(sourceValue)
WatcherEmitsMut(o) == TRUE
WatcherEmits(o) == ~skipFirst[o] \/ initialValue[o] # source

\* observable.subscribe(...) by subscriber k
Subscribe(o, k, late) ==
  /\ subscribers[o][k].state = "off"
  /\ IF hasCompleted[o] \/ connected[o]
       \* the ReplaySubject replays its buffer, and completes if the pipe did
       THEN /\ subscribers' = [subscribers EXCEPT ![o][k] =
                 [state |-> IF hasCompleted[o] THEN "completed" ELSE "on",
                  got |-> replayed[o]]]
            /\ UNCHANGED <<watcher, skipFirst, initialValue, connected,
                           replayed, hasCompleted>>
     ELSE IF oDestroyed /\ late = "throw"
       \* tap's subscribe callback: effect() throws, the subscriber gets the
       \* error and shareReplay resets
       THEN /\ subscribers' = [subscribers EXCEPT ![o][k] =
                 [state |-> "errored", got |-> <<>>]]
            /\ UNCHANGED <<watcher, skipFirst, initialValue, connected,
                           replayed, hasCompleted>>
     ELSE LET e == Emission(StartValue, sourceVersion)
          IN /\ initialValue' = [initialValue EXCEPT ![o] = StartValue]
             /\ replayed' = [replayed EXCEPT ![o] = <<e>>]
             /\ skipFirst' = [skipFirst EXCEPT ![o] = TRUE]
             /\ IF oDestroyed
                  \* concat reaches the completed subject: the pipe
                  \* completes and finalize destroys the watcher
                  THEN /\ subscribers' = [subscribers EXCEPT ![o][k] =
                            [state |-> "completed", got |-> <<e>>]]
                       /\ hasCompleted' = [hasCompleted EXCEPT ![o] = TRUE]
                       /\ watcher' = [watcher EXCEPT ![o] = "destroyed"]
                       /\ UNCHANGED connected
                  ELSE /\ subscribers' = [subscribers EXCEPT ![o][k] =
                            [state |-> "on", got |-> <<e>>]]
                       /\ connected' = [connected EXCEPT ![o] = TRUE]
                       /\ watcher' = [watcher EXCEPT ![o] = "scheduled"]
                       /\ UNCHANGED hasCompleted
  /\ UNCHANGED <<source, sourceVersion, oDestroyed, destroyedAt>>

\* subscription.unsubscribe(): when the last subscriber leaves, shareReplay
\* unsubscribes from the pipe (finalize destroys the watcher) and drops its
\* ReplaySubject
Unsubscribe(o, k) ==
  /\ subscribers[o][k].state = "on"
  /\ subscribers' = [subscribers EXCEPT ![o][k] = NoSubscriber]
  /\ IF Active(o) = {k}
       THEN /\ connected' = [connected EXCEPT ![o] = FALSE]
            /\ replayed' = [replayed EXCEPT ![o] = <<>>]
            /\ watcher' = [watcher EXCEPT ![o] = "destroyed"]
       ELSE UNCHANGED <<connected, replayed, watcher>>
  /\ UNCHANGED <<source, sourceVersion, skipFirst, initialValue, hasCompleted,
                 oDestroyed, destroyedAt>>

\* source.set(v): the live watchers are scheduled
SetSource(v) ==
  /\ v # source
  /\ sourceVersion < MaxSets
  /\ source' = v
  /\ sourceVersion' = sourceVersion + 1
  /\ watcher' = [o \in Observables |->
                   IF watcher[o] = "idle" THEN "scheduled" ELSE watcher[o]]
  /\ UNCHANGED <<skipFirst, initialValue, connected, replayed, hasCompleted,
                 subscribers, oDestroyed, destroyedAt>>

\* the scheduler runs the watcher effect of o
RunWatcher(o) ==
  /\ watcher[o] = "scheduled"
  /\ watcher' = [watcher EXCEPT ![o] = "idle"]
  /\ skipFirst' = [skipFirst EXCEPT ![o] = FALSE]
  /\ IF WatcherEmits(o)
       THEN LET e == Emission(source, sourceVersion)
            IN /\ replayed' = [replayed EXCEPT ![o] = <<e>>]
               /\ subscribers' = [subscribers EXCEPT ![o] =
                    [k \in Subscribers |->
                       IF k \in Active(o)
                       THEN [subscribers[o][k] EXCEPT !.got = Append(@, e)]
                       ELSE subscribers[o][k]]]
       ELSE UNCHANGED <<replayed, subscribers>>
  /\ UNCHANGED <<source, sourceVersion, initialValue, connected, hasCompleted,
                 oDestroyed, destroyedAt>>

\* a teardown whose onDestroy callback does not complete the subject
OTeardownMut ==
  /\ ~oDestroyed
  /\ oDestroyed' = TRUE
  /\ destroyedAt' = sourceVersion
  /\ UNCHANGED <<source, sourceVersion, watcher, skipFirst, initialValue,
                 connected, replayed, hasCompleted, subscribers>>

\* the injector is destroyed: subject.complete() for each observable; a
\* connected pipe completes, its subscribers complete and finalize destroys
\* the watcher
OTeardown ==
  /\ ~oDestroyed
  /\ oDestroyed' = TRUE
  /\ destroyedAt' = sourceVersion
  /\ hasCompleted' = [o \in Observables |-> hasCompleted[o] \/ connected[o]]
  /\ connected' = [o \in Observables |-> FALSE]
  /\ watcher' = [o \in Observables |->
                   IF connected[o] THEN "destroyed" ELSE watcher[o]]
  /\ subscribers' = [o \in Observables |-> [k \in Subscribers |->
                       IF k \in Active(o)
                       THEN [subscribers[o][k] EXCEPT !.state = "completed"]
                       ELSE subscribers[o][k]]]
  /\ UNCHANGED <<source, sourceVersion, skipFirst, initialValue, replayed>>

OIdle ==
  /\ source = "initialValue" /\ sourceVersion = 0
  /\ watcher = [o \in Observables |-> "undefined"]
  /\ skipFirst = [o \in Observables |-> TRUE]
  /\ initialValue = [o \in Observables |-> Undefined]
  /\ connected = [o \in Observables |-> FALSE]
  /\ replayed = [o \in Observables |-> <<>>]
  /\ hasCompleted = [o \in Observables |-> FALSE]
  /\ subscribers = [o \in Observables |-> [k \in Subscribers |-> NoSubscriber]]
  /\ oDestroyed = TRUE
  /\ destroyedAt = 0

\* ------------------------------------------------------ Part 4: lazyStartWith
\* source.pipe(lazyStartWith(factory)) over a cold source that gives every
\* subscription the same values and then completes.

MaxCalls == 3

LSources == {<<>>, <<100>>, <<1, 2, 3>>}
FactoryVals == {0, 42}
\* what a call of the factory does: return value, or throw
Factories == [throws : BOOLEAN, value : FactoryVals]
LSubscribers == {"first", "second"}

VARIABLES
  lSource,       \* the values of the source observable
  factory,       \* what the factory does when called now
  piped,         \* source.pipe(lazyStartWith(factory)) has been evaluated
  callCounter,   \* the calls of the factory so far
  lSubs          \* per subscriber: state ("off", "on", "completed",
                 \* "errored"), the values received, and the position of
                 \* its subscription in the source

lvars == <<lSource, factory, piped, callCounter, lSubs>>

LOff == [state |-> "off", got |-> <<>>, pos |-> 0]

LInit ==
  /\ lSource \in LSources
  /\ factory \in Factories
  /\ piped = FALSE
  /\ callCounter = 0
  /\ lSubs = [k \in LSubscribers |-> LOff]

\* const observable$ = source$.pipe(lazyStartWith(factory))
Pipe ==
  /\ ~piped
  /\ piped' = TRUE
  /\ UNCHANGED <<lSource, factory, callCounter, lSubs>>

\* the state the factory reads changes
SetFactory(f) ==
  /\ f # factory
  /\ factory' = f
  /\ UNCHANGED <<lSource, piped, callCounter, lSubs>>

\* an operator that evaluates the factory with the pipe, like startWith
LSubscribeMut(k) ==
  /\ piped
  /\ lSubs[k].state # "on"
  /\ callCounter < MaxCalls
  /\ lSubs' = [lSubs EXCEPT ![k] =
       [state |-> "on", got |-> <<0>>, pos |-> 0]]
  /\ UNCHANGED <<lSource, factory, piped, callCounter>>

\* observable$.subscribe(...): defer calls the factory inside the subscribe
\* call; concat emits of(factory()) and then subscribes to the source
LSubscribe(k) ==
  /\ piped
  /\ lSubs[k].state # "on"
  /\ callCounter < MaxCalls
  /\ callCounter' = callCounter + 1
  /\ lSubs' = [lSubs EXCEPT ![k] =
       IF factory.throws
       THEN [state |-> "errored", got |-> <<>>, pos |-> 0]
       ELSE [state |-> "on", got |-> <<factory.value>>, pos |-> 0]]
  /\ UNCHANGED <<lSource, factory, piped>>

\* the source gives the subscription of k its next value, or completes
LDeliver(k) ==
  /\ lSubs[k].state = "on"
  /\ lSubs' = [lSubs EXCEPT ![k] =
       IF lSubs[k].pos < Len(lSource)
       THEN [state |-> "on",
             got |-> Append(lSubs[k].got, lSource[lSubs[k].pos + 1]),
             pos |-> lSubs[k].pos + 1]
       ELSE [lSubs[k] EXCEPT !.state = "completed"]]
  /\ UNCHANGED <<lSource, factory, piped, callCounter>>

\* subscription.unsubscribe()
LUnsubscribe(k) ==
  /\ lSubs[k].state = "on"
  /\ lSubs' = [lSubs EXCEPT ![k] = LOff]
  /\ UNCHANGED <<lSource, factory, piped, callCounter>>

LIdle ==
  /\ lSource = <<>>
  /\ factory = [throws |-> FALSE, value |-> 0]
  /\ piped = FALSE
  /\ callCounter = 0
  /\ lSubs = [k \in LSubscribers |-> LOff]

\* ------------------------------------------------------ Part 5: signal store features
\* A signalStore built from withRootGuard() and withOptionalHooks(hooks) is
\* instantiated in an injector, and the injector is destroyed.

\* what inject(DISABLE_HOOKS, {optional: true}) returns
DisableHooksValues == {"null", "false", "true"}
Injectors == {"root", "component", "standaloneComponent", "module"}
rootInjector == "root"
\* the features of the store, in the order given to signalStore
FeatureLists == {<<"withOptionalHooks">>, <<"withRootGuard">>,
                 <<"withRootGuard", "withOptionalHooks">>,
                 <<"withOptionalHooks", "withRootGuard">>}
HookSets == [onInit : BOOLEAN, onDestroy : BOOLEAN]
RootGuardError ==
  "Root provided Store must not be provided in modules or components."
NoError == "none"

VARIABLES
  features,         \* the features of the store class
  hooks,            \* the hooks given to withOptionalHooks
  disableHooks,     \* the value of DISABLE_HOOKS in the injector
  currentInjector,  \* the injector the store is instantiated in
  storeState,       \* "none", "created", "failed"
  innerStore,       \* the hooks of the store after its features were applied
  thrown,           \* the error instantiation threw
  initCalled,       \* the calls of hooks.onInit
  destroyCalled,    \* the calls of hooks.onDestroy
  onDestroyHooks,   \* the callbacks registered with the DestroyRef
  sDestroyed        \* the injector has been destroyed

svars == <<features, hooks, disableHooks, currentInjector, storeState,
           innerStore, thrown, initCalled, destroyCalled, onDestroyHooks,
           sDestroyed>>

\* a store without hooks
EmptyStore == [onInit |-> <<>>, onDestroy |-> <<>>]

\* withHooks(h)(store): the hooks of the feature run after the store's
WithHooks(store, feature, h) ==
  [onInit |-> IF h.onInit THEN Append(store.onInit, feature)
              ELSE store.onInit,
   onDestroy |-> IF h.onDestroy THEN Append(store.onDestroy, feature)
                 ELSE store.onDestroy]

\* if (disableHooks)
DisabledMut == FALSE
Disabled == disableHooks = "true"

\* withOptionalHooks(hooks)(store)
WithOptionalHooks(store) ==
  IF Disabled THEN store ELSE WithHooks(store, "withOptionalHooks", hooks)

\* withRootGuard()(store)
WithRootGuard(store) ==
  WithHooks(store, "withRootGuard", [onInit |-> TRUE, onDestroy |-> FALSE])

\* signalStore applies its features in order
RECURSIVE ApplyFeatures(_, _)
ApplyFeatures(fs, store) ==
  IF fs = <<>> THEN store
  ELSE ApplyFeatures(Tail(fs),
         IF Head(fs) = "withRootGuard" THEN WithRootGuard(store)
         ELSE WithOptionalHooks(store))

\* if (currentInjector !== rootInjector)
GuardThrowsMut == FALSE
GuardThrows == currentInjector # rootInjector

\* the merged onInit hook: the hooks run in order until one throws; the
\* result is the number of calls of hooks.onInit and the error thrown
RECURSIVE RunOnInit(_, _)
RunOnInit(hs, called) ==
  IF hs = <<>> THEN [called |-> called, thrown |-> NoError]
  ELSE IF Head(hs) = "withRootGuard"
    THEN IF GuardThrows THEN [called |-> called, thrown |-> RootGuardError]
         ELSE RunOnInit(Tail(hs), called)
    ELSE RunOnInit(Tail(hs), called + 1)

SInit ==
  /\ features \in FeatureLists
  /\ hooks \in HookSets
  /\ disableHooks \in DisableHooksValues
  /\ currentInjector \in Injectors
  /\ storeState = "none"
  /\ innerStore = EmptyStore
  /\ thrown = NoError
  /\ initCalled = 0
  /\ destroyCalled = 0
  /\ onDestroyHooks = <<>>
  /\ sDestroyed = FALSE

\* inject(Store) in the injector: the constructor applies the features,
\* calls the merged onInit hook and registers the merged onDestroy hook
CreateStore ==
  /\ storeState = "none"
  /\ ~sDestroyed
  /\ LET store == ApplyFeatures(features, EmptyStore)
         ran == RunOnInit(store.onInit, 0)
     IN /\ innerStore' = store
        /\ initCalled' = initCalled + ran.called
        /\ thrown' = ran.thrown
        /\ IF ran.thrown # NoError
             THEN storeState' = "failed" /\ UNCHANGED onDestroyHooks
             ELSE /\ storeState' = "created"
                  /\ onDestroyHooks' = store.onDestroy
  /\ UNCHANGED <<features, hooks, disableHooks, currentInjector,
                 destroyCalled, sDestroyed>>

\* the injector is destroyed: the DestroyRef runs its callbacks
DestroyInjector ==
  /\ ~sDestroyed
  /\ sDestroyed' = TRUE
  /\ destroyCalled' = destroyCalled + Len(onDestroyHooks)
  /\ onDestroyHooks' = <<>>
  /\ UNCHANGED <<features, hooks, disableHooks, currentInjector, storeState,
                 innerStore, thrown, initCalled>>

SIdle ==
  /\ features = <<"withRootGuard">>
  /\ hooks = [onInit |-> FALSE, onDestroy |-> FALSE]
  /\ disableHooks = "null"
  /\ currentInjector = rootInjector
  /\ storeState = "none"
  /\ innerStore = EmptyStore
  /\ thrown = NoError
  /\ initCalled = 0
  /\ destroyCalled = 0
  /\ onDestroyHooks = <<>>
  /\ sDestroyed = TRUE

\* ------------------------------------------------------ specifications
vars == <<bvars, evars, ovars, lvars, svars>>
\* what a step of one part leaves alone
nonBindable == <<evars, ovars, lvars, svars>>
nonEvent == <<bvars, ovars, lvars, svars>>
nonBehavior == <<bvars, evars, lvars, svars>>
nonLazy == <<bvars, evars, ovars, svars>>
nonStore == <<bvars, evars, ovars, lvars>>

\* the state of a component that holds no bindable cell / no event signal
BIdle ==
  /\ options = [destroyRef |-> FALSE, injector |-> FALSE, manualCleanup |-> FALSE]
  /\ inInjectionContext = FALSE
  /\ created = FALSE /\ injector = FALSE
  /\ bindableSignal = InitialValue /\ bound = FALSE
  /\ effectRef = 0 /\ subscription = 0 /\ handles = {} /\ nextId = 1
  /\ streamCur = InitialValue /\ streamDone = {}
  /\ cellVal = [c \in Cells |-> InitialValue]
  /\ destroyed = FALSE
  /\ bLast = BOp("create", NoSource, NoArg, TRUE)
  /\ boundSrc = NoSource /\ prevSrc = NoSource /\ reboundAfterDestroy = FALSE

EIdle ==
  /\ eOptions = NoOptions /\ calls = <<>> /\ delivered = NoEvent
  /\ eventSignal = Undefined /\ activatorAttached = FALSE /\ listening = FALSE
  /\ activatorEffectRef = NoActivator /\ activatorSubscription = NoActivator
  /\ activatorProxy = NoActivator /\ throttled = FALSE
  /\ previousListenerTarget = Undefined /\ previousEventName = {"mousedown"}
  /\ listenerTarget = Undefined /\ eventNameSignal = {"mousedown"}
  /\ kind = "signal" /\ gate = FALSE
  /\ updaters = {} /\ dirty = {}
  /\ registered = {} /\ eDestroyed = TRUE
  /\ eLast = EOp("create", "no", {})
  /\ phase = "fresh" /\ stable = TRUE /\ changes = 0 /\ cycle = "none"

\* a component with a bindable cell
InitBindable == BInit /\ EIdle /\ OIdle /\ LIdle /\ SIdle

BNext ==
  \/ \E src \in Sources, rx \in BOOLEAN, late \in LateOutcomes :
       BindTo(src, rx, late) /\ UNCHANGED nonBindable
  \/ Unbind /\ UNCHANGED nonBindable
  \/ \E s \in Streams, v \in Vals : Emit(s, v) /\ UNCHANGED nonBindable
  \/ \E s \in Streams : Terminate(s) /\ UNCHANGED nonBindable
  \/ \E c \in Cells, v \in Vals : SetCell(c, v) /\ UNCHANGED nonBindable
  \/ \E h \in handles : RunEffect(h) /\ UNCHANGED nonBindable
  \/ Teardown /\ UNCHANGED nonBindable

SpecBindable == InitBindable /\ [][BNext]_vars

\* the scheduler runs every effect that stays scheduled
SpecBindableFair ==
  /\ InitBindable
  /\ [][BNext]_vars
  /\ WF_vars(\E h \in handles : RunEffect(h) /\ UNCHANGED nonBindable)

\* a component with an event signal
InitEvent ==
  eOptions = NoOptions /\ EInit /\ BIdle /\ OIdle /\ LIdle /\ SIdle

ENext ==
  \/ \E a \in {"true", kind}, late \in Late :
       AttachActivator(a, late) /\ UNCHANGED nonEvent
  \/ Deactivate /\ UNCHANGED nonEvent
  \/ \E order \in EffectOrders(dirty) : Flush(order) /\ UNCHANGED nonEvent
  \/ \E late \in Late : ThrottleFire(late) /\ UNCHANGED nonEvent
  \/ \E t \in TargetVals : SetTarget(t) /\ UNCHANGED nonEvent
  \/ \E n \in EventNameVals : SetEventName(n) /\ UNCHANGED nonEvent
  \/ \E b \in BOOLEAN : SetGate(b) /\ UNCHANGED nonEvent
  \/ \E el \in Elements, n \in EventNames :
       Dispatch(el, n, NewEvent) /\ UNCHANGED nonEvent
  \/ ETeardown /\ UNCHANGED nonEvent

SpecEvent == InitEvent /\ [][ENext]_vars

\* a component with an event signal created with any of the delivery options,
\* on a target and for event names given as plain values: they never change
InitDelivery ==
  eOptions \in EventOptions /\ EInit /\ BIdle /\ OIdle /\ LIdle /\ SIdle

DeliveryNext ==
  \/ \E a \in {"true", kind}, late \in Late :
       AttachActivator(a, late) /\ UNCHANGED nonEvent
  \/ Deactivate /\ UNCHANGED nonEvent
  \/ \E order \in EffectOrders(dirty) : Flush(order) /\ UNCHANGED nonEvent
  \/ \E b \in BOOLEAN : SetGate(b) /\ UNCHANGED nonEvent
  \/ \E el \in Elements, n \in EventNames :
       Dispatch(el, n, NewEvent) /\ UNCHANGED nonEvent
  \/ ETeardown /\ UNCHANGED nonEvent

SpecDelivery == InitDelivery /\ [][DeliveryNext]_vars

\* two toBehaviorObservable streams of one source signal
InitBehavior == OInit /\ BIdle /\ EIdle /\ LIdle /\ SIdle

BehaviorNext ==
  \/ \E o \in Observables, k \in Subscribers, late \in LateOutcomes :
       Subscribe(o, k, late) /\ UNCHANGED nonBehavior
  \/ \E o \in Observables, k \in Subscribers :
       Unsubscribe(o, k) /\ UNCHANGED nonBehavior
  \/ \E v \in SourceVals : SetSource(v) /\ UNCHANGED nonBehavior
  \/ \E o \in Observables : RunWatcher(o) /\ UNCHANGED nonBehavior
  \/ OTeardown /\ UNCHANGED nonBehavior

SpecBehavior == InitBehavior /\ [][BehaviorNext]_vars

\* lazyStartWith
InitLazy == LInit /\ BIdle /\ EIdle /\ OIdle /\ SIdle

LazyNext ==
  \/ Pipe /\ UNCHANGED nonLazy
  \/ \E f \in Factories : SetFactory(f) /\ UNCHANGED nonLazy
  \/ \E k \in LSubscribers : LSubscribe(k) /\ UNCHANGED nonLazy
  \/ \E k \in LSubscribers : LDeliver(k) /\ UNCHANGED nonLazy
  \/ \E k \in LSubscribers : LUnsubscribe(k) /\ UNCHANGED nonLazy

SpecLazy == InitLazy /\ [][LazyNext]_vars

\* signal store features
InitStore == SInit /\ BIdle /\ EIdle /\ OIdle /\ LIdle

StoreNext ==
  \/ CreateStore /\ UNCHANGED nonStore
  \/ DestroyInjector /\ UNCHANGED nonStore

SpecStore == InitStore /\ [][StoreNext]_vars

\* ===================================================== claims, bindable
\* the binding made by the last successful bindTo can still deliver: it was
\* not cancelled by the scope's teardown
BindingAlive == bound /\ (options.manualCleanup \/ ~destroyed)

\* C1: a bindable cell never holds more than one live subscription or effect,
\* and the one it holds is the one its closure refers to, on the source of the
\* last successful bindTo: no two sources can write the held value.
C1_SingleActiveBinding ==
  /\ Cardinality(handles) <= 1
  /\ \A h \in handles :
       /\ bound
       /\ h.src = boundSrc
       /\ h.id = (IF h.kind = "effect" THEN effectRef ELSE subscription)

C1_Witness ==
  /\ Cardinality(handles) = 1
  /\ prevSrc # NoSource /\ prevSrc # boundSrc
  /\ bLast.op = "emit" /\ bLast.src = prevSrc

\* C2: bindTo on a bound cell throws and changes nothing: no subscription or
\* effect is created and the cell stays bound to its source, whose emissions
\* still set the held value; emissions of any other source never do.
C2_SecondBindToThrows ==
  [][/\ (bound /\ bLast'.op = "bindTo") =>
          /\ bLast'.threw
          /\ UNCHANGED <<bindableSignal, bound, effectRef, subscription, handles,
                         nextId, boundSrc, prevSrc>>
     /\ (bound /\ bLast'.op \in {"emit", "run"} /\ bLast'.src # boundSrc) =>
          bindableSignal' = bindableSignal
     /\ (BindingAlive /\ bLast'.op = "emit" /\ bLast'.src = boundSrc) =>
          bindableSignal' = bLast'.arg
    ]_bvars

C2_Witness ==
  /\ bound /\ bLast.op = "bindTo" /\ bLast.threw /\ bLast.arg = "plain"
  /\ bLast.src # boundSrc /\ handles # {}

\* C3: latest bind wins. After bindTo(A), unbind(), bindTo(B) with B another
\* source, streams and signals in every combination: an emission of stream B
\* sets the held value, a change of signal B leaves the effect pending and its
\* run sets the held value to B's value, and nothing A does changes the held
\* value.
C3_LatestBindWins ==
  [][(prevSrc' # NoSource /\ prevSrc' # boundSrc' /\ bound') =>
       /\ (bound /\ bLast'.src = prevSrc /\ bLast'.op \in {"emit", "set", "run", "terminate"}) =>
            bindableSignal' = bindableSignal
       /\ (BindingAlive /\ bLast'.op = "emit" /\ bLast'.src = boundSrc) =>
            bindableSignal' = bLast'.arg
       /\ (bLast'.op = "run" /\ bLast'.src = boundSrc') =>
            bindableSignal' = cellVal[boundSrc]
       /\ (~destroyed' /\ boundSrc' \in Cells /\ bindableSignal' # cellVal'[boundSrc']) =>
            \E h \in handles' : h.kind = "effect" /\ h.src = boundSrc' /\ h.dirty
    ]_bvars

C3_Witness ==
  /\ prevSrc \in Cells /\ boundSrc \in Streams /\ bound
  /\ bLast.op = "set" /\ bLast.src = prevSrc
  /\ cellVal[prevSrc] # bindableSignal

\* C4: unbind takes effect synchronously. While the cell is unbound no step
\* changes the held value: not an emission of the stream it was bound to, not
\* a change of the signal it was bound to, and not the effect of a change made
\* before unbind (the destroyed effect never runs).
C4_UnbindIsSynchronous ==
  [][(~bound /\ ~bound') =>
       /\ bindableSignal' = bindableSignal
       /\ bLast'.op # "run"
    ]_bvars

C4_Witness ==
  /\ ~bound /\ boundSrc \in Cells
  /\ bLast.op = "unbind" /\ ~bLast.threw
  /\ cellVal[boundSrc] # bindableSignal

\* C5: with automatic cleanup, once the scope's teardown has run nothing
\* changes the held value any more (until the caller binds the cell again),
\* and running the teardown once more changes nothing.
C5_TeardownCancels ==
  [][(~options.manualCleanup /\ destroyed) =>
       /\ ~reboundAfterDestroy' => bindableSignal' = bindableSignal
       /\ bLast'.op = "teardown" =>
            UNCHANGED <<bindableSignal, bound, effectRef, subscription, handles,
                        nextId, destroyed>>
    ]_bvars

C5_Witness ==
  /\ ~options.manualCleanup /\ destroyed /\ ~reboundAfterDestroy /\ bound
  /\ bLast.op = "emit" /\ bLast.src = boundSrc /\ bLast.arg # bindableSignal

CurrentPairs ==
  IF NativeElement(listenerTarget) = Undefined THEN {}
  ELSE {NativeElement(listenerTarget)} \X eventNameSignal

\* C7 (as stated): deactivate() takes effect synchronously, for every activator
\* kind and every interleaving with pending target or event-name changes: from
\* its return until the next attachActivator no dispatched event changes the
\* held value and no listener is added.
C7_DeactivateIsSynchronous ==
  [][(phase = "deactivated" /\ phase' = "deactivated" /\ ~eDestroyed')
       => /\ eventSignal' = eventSignal
          /\ registered' \subseteq registered]_evars

\* C8: attachActivator throws exactly when an activator is attached and
\* deactivate() was not called since, and the throw leaves the activator, the
\* registration and the held value as they were. After deactivate() an
\* activator of any kind is accepted, removeEventListener is not called during
\* the re-attach, and (the injector alive) delivery is set up again: the
\* listener is registered for true and for a stream that replays true, the
\* effect is scheduled for a reactive boolean, the stream is subscribed.
C8_AttachThrowsWhenAttached ==
  [][eLast'.op = "attachActivator" =>
       /\ (eLast'.threw = "alreadyAttached") <=> (phase = "attached")
       /\ eLast'.threw = "alreadyAttached" =>
            UNCHANGED <<activatorProxy, activatorAttached, activatorEffectRef,
                        activatorSubscription, updaters, dirty, listening,
                        registered, eventSignal, phase>>
       /\ phase = "deactivated" =>
            /\ eLast'.removed = {}
            /\ activatorAttached' /\ activatorProxy' \in {"true"} \cup ActivatorKinds
            /\ ~eDestroyed =>
                 /\ eLast'.threw = "no"
                 /\ (activatorProxy' = "true" \/ (activatorProxy' = "behavior" /\ gate))
                      => CurrentPairs \subseteq registered'
                 /\ (activatorProxy' = "signal" /\ listenerTarget # Undefined)
                      => "signal" \in updaters' /\ "activator" \in dirty'
                 /\ (activatorProxy' \in ActivatorStreams /\ listenerTarget # Undefined)
                      => activatorProxy' \in updaters']_evars

\* attachActivator threw because an activator was attached
C8_Witness ==
  /\ eLast.op = "attachActivator" /\ eLast.threw = "alreadyAttached"
  /\ registered # {}

C10_ListenerFollowsGate ==
  /\ []((/\ activatorProxy = kind /\ kind # "subject"
          /\ phase = "attached" /\ ~eDestroyed /\ stable
          /\ gate /\ dirty = {} /\ ~throttled)
          => CurrentPairs \subseteq registered)
  /\ [][(/\ activatorProxy = kind /\ activatorProxy' = kind
          /\ phase = "attached" /\ ~eDestroyed
          /\ NativeElement(listenerTarget) # Undefined
          /\ ~gate /\ "activator" \notin dirty)
          => eventSignal' = eventSignal]_evars

\* the effects scheduled run
FlushStep == \E order \in EffectOrders(dirty) : Flush(order)

\* the scheduled re-attachment runs
ThrottleStep == \E late \in Late : ThrottleFire(late)

\* the listener is registered on el for names and nowhere else
ListenerOn(el, names) == listening /\ registered = {el} \X names

\* C11 (as stated): the target changes from a defined target T1, which the
\* listener is on, to a defined target T2 while an activator is attached,
\* whatever preceded. When the target watcher has run the listener is off T1,
\* so that no event dispatched on T1 changes the held value, and the
\* re-attachment is scheduled; the re-attachment of the activator true puts the
\* listener on T2.
C11_RetargetRemovesOldListener ==
  [][/\ \A t1 \in Elements :
          (/\ activatorAttached /\ ~eDestroyed
           /\ ListenerOn(t1, eventNameSignal)
           /\ previousEventName = eventNameSignal
           /\ NativeElement(listenerTarget) \notin {Undefined, t1}
           /\ "listenerChange" \in dirty
           /\ FlushStep)
          => /\ \A p \in registered' : p[1] # t1
             /\ throttled'
     /\ (/\ activatorProxy = "true" /\ ~eDestroyed
         /\ NativeElement(listenerTarget) # Undefined
         /\ NoChangePending
         /\ ThrottleStep)
          => CurrentPairs \subseteq registered']_evars

\* C12 (as stated): the listener is on T1 for the names N1, an activator
\* attached, and both the target (to a defined T2) and the event names (to N2)
\* change before the watchers run. When they have run, nothing is left
\* registered on T1, for an old or a new name, nor for a name outside N2 on T2;
\* the re-attachment that follows registers for the names N2 on T2 only.
C12_LatestNameAndTargetOnly ==
  [][/\ \A t1 \in Elements :
          (/\ activatorAttached /\ ~eDestroyed
           /\ ListenerOn(t1, previousEventName)
           /\ NativeElement(previousListenerTarget) = t1
           /\ NativeElement(listenerTarget) \notin {Undefined, t1}
           /\ previousEventName # eventNameSignal
           /\ {"listenerChange", "eventNameChange"} \subseteq dirty
           /\ FlushStep)
          => /\ registered' \subseteq CurrentPairs
             /\ throttled'
     /\ (registered \subseteq CurrentPairs /\ ThrottleStep)
          => registered' \subseteq CurrentPairs]_evars

\* an activator is attached and its gate is on: the literal true, a reactive
\* boolean that is true, a stream whose last emission was true
GateOn ==
  /\ activatorAttached
  /\ activatorProxy = "true" \/ (activatorProxy = kind /\ gate)

\* C13 (as stated): the listener is on the current target for the names N1, an
\* activator attached and on, and the event names change to N2. When the name
\* watcher has run the listener is removed for every name of N1 (what is left
\* registered is for names of N2 on the target) and the re-attachment is
\* scheduled; the re-attachment registers the listener for every name of N2, at
\* once or, for a reactive boolean, by the effect it schedules.
C13_EventNameChangeReattaches ==
  [][/\ (/\ GateOn /\ ~eDestroyed
         /\ NativeElement(listenerTarget) # Undefined
         /\ ListenerOn(NativeElement(listenerTarget), previousEventName)
         /\ previousListenerTarget = listenerTarget
         /\ previousEventName # eventNameSignal
         /\ "eventNameChange" \in dirty
         /\ FlushStep)
          => /\ registered' \subseteq CurrentPairs
             /\ throttled'
     /\ (/\ GateOn /\ ~eDestroyed
         /\ NativeElement(listenerTarget) # Undefined
         /\ NoChangePending /\ previousListenerTarget = listenerTarget
         /\ cycle = "name"
         /\ ThrottleStep)
          => \/ CurrentPairs \subseteq registered'
             \/ activatorProxy = "signal" /\ "activator" \in dirty'
     /\ (/\ GateOn /\ ~eDestroyed /\ activatorProxy = "signal"
         /\ NativeElement(listenerTarget) # Undefined
         /\ NoChangePending /\ previousListenerTarget = listenerTarget
         /\ cycle = "name"
         /\ "activator" \in dirty /\ ~throttled
         /\ FlushStep)
          => CurrentPairs \subseteq registered']_evars

\* C14 (as stated): the listener is on T1, an activator attached, and the
\* target cell stops resolving: it yields undefined, or an element reference
\* whose element is undefined. When the target watcher has run no error was
\* raised, the listener is marked not listening and is registered nowhere, so
\* that no event dispatched on T1 changes the held value.
C14_TargetBecomesUndefined ==
  [][\A t1 \in Elements :
       (/\ activatorAttached /\ ~eDestroyed
        /\ ListenerOn(t1, eventNameSignal)
        /\ previousEventName = eventNameSignal
        /\ NativeElement(previousListenerTarget) = t1
        /\ listenerTarget \in {Undefined, EmptyRef}
        /\ "listenerChange" \in dirty
        /\ FlushStep)
       => /\ eLast'.threw = "no"
          /\ ~listening'
          /\ registered' = {}]_evars

\* C15 (as stated): the activator true is attached, the listener not on
\* because the target cell did not resolve, and the cell now yields a defined
\* target. When the target watcher has run the re-attachment is scheduled,
\* and when the re-attachment has run the listener is on the target, without
\* a call of attachActivator. After deactivate(), until attachActivator is
\* called again, the listener is added to no target.
C15_AttachesWhenTargetAppears ==
  [][/\ (/\ activatorAttached /\ activatorProxy = "true" /\ ~eDestroyed
         /\ ~listening /\ ~throttled
         /\ NativeElement(listenerTarget) # Undefined
         /\ previousEventName = eventNameSignal
         /\ "listenerChange" \in dirty
         /\ FlushStep)
          => throttled'
     /\ (/\ activatorAttached /\ activatorProxy = "true" /\ ~eDestroyed
         /\ ~listening
         /\ NativeElement(listenerTarget) # Undefined
         /\ NoChangePending
         /\ ThrottleStep)
          => CurrentPairs \subseteq registered' /\ listening'
     /\ (phase = "deactivated" /\ phase' = "deactivated" /\ ~eDestroyed')
          => registered' \subseteq registered]_evars

\* no effect is scheduled and no re-attachment is pending
Quiescent == dirty = {} /\ ~throttled

\* the elements the handler is registered on
RegisteredTargets == {p[1] : p \in registered}

\* C16 (as stated, for the states in which no change awaits its watcher or the
\* re-attachment): whatever operations led to the state, the handler is
\* registered on at most one target and for no event name outside the current
\* event-name set.
C16_NoLeftOverListener ==
  []((Quiescent /\ ~eDestroyed)
      => /\ Cardinality(RegisteredTargets) <= 1
         /\ \A p \in registered : p[2] \in eventNameSignal)

\* C17 (as stated): in a state with no effect scheduled and no re-attachment
\* pending, the handler is registered on the resolved target, for the current
\* event names, if an activator is attached whose gate is on and the target
\* resolves, and is registered nowhere otherwise; the listening flag says
\* whether it is registered. (A stream that does not replay may not have
\* delivered its last emission to the subscription: for it the handler may
\* also be registered nowhere.)
C17_ListeningIffOnAndResolved ==
  []((Quiescent /\ ~eDestroyed)
      => /\ registered = (IF GateOn THEN CurrentPairs ELSE {})
            \/ (GateOn /\ activatorProxy = "subject" /\ registered = {})
         /\ listening <=> registered # {})

\* C18 (as stated): for every activator kind whose gate is on, a change of the
\* resolved target or of the event names made while the listener is attached
\* is eventually followed by the listener being attached to the current target
\* for the current names, with no further action of the caller and no new
\* emission of the activator: once no effect is scheduled and no
\* re-attachment is pending any more, the listener is attached again.
C18_ReattachesForEveryActivatorKind ==
  []((/\ Quiescent
      /\ ~eDestroyed
      /\ cycle # "none"
      /\ GateOn
      /\ NativeElement(listenerTarget) # Undefined)
      => listening /\ CurrentPairs \subseteq registered)

\* C19 (as stated): re-attachment is coalesced: when the target and the event
\* name both change before the scheduled re-attachment runs, one re-attach
\* cycle runs; the watchers call removeEventListener on the previous target
\* and never on the new one and schedule a single re-attachment, and that
\* re-attachment removes nothing and adds the listener to the new target.
C19_ReattachIsCoalesced ==
  [][ /\ \A t1 \in Elements :
           ( /\ activatorAttached
             /\ ~eDestroyed
             /\ ListenerOn(t1, previousEventName)
             /\ NativeElement(previousListenerTarget) = t1
             /\ NativeElement(listenerTarget) \notin {Undefined, t1}
             /\ previousEventName # eventNameSignal
             /\ {"listenerChange", "eventNameChange"} \subseteq dirty
             /\ FlushStep )
           => /\ eLast'.removed = {t1}
              /\ throttled'
              /\ \A p \in registered' : p[1] # NativeElement(listenerTarget)
      /\ ( /\ activatorProxy = "true"
           /\ ~eDestroyed
           /\ cycle = "both"
           /\ NativeElement(listenerTarget) # Undefined
           /\ NoChangePending
           /\ ThrottleStep )
         => /\ eLast'.removed = {}
            /\ CurrentPairs \subseteq registered'
    ]_evars

\* what eventListener called before it called fn, in its last run
CalledBefore(fn) ==
  {calls[i] : i \in {j \in DOMAIN calls : \E k \in DOMAIN calls : j < k /\ calls[k] = fn}}

\* the held value the options give for a delivered event
HeldFor(event) ==
  IF eOptions.resultSelector = "none" THEN event ELSE Selected(event)

\* C20: for each delivered event, tap (when supplied) is called, and before
\* resultSelector, and the held value afterwards is resultSelector's result
\* for the event, the event itself when no resultSelector was supplied; the
\* held value is always the result for the last event delivered, and the
\* initial value (undefined when none was given) before any delivery. An
\* event dispatched where the listener is not registered is not delivered.
C20_TapThenResultSelector ==
  /\ [](delivered = NoEvent => eventSignal = eOptions.initialValue /\ calls = <<>>)
  /\ [](delivered # NoEvent
          => /\ eventSignal = HeldFor(delivered)
             /\ (eOptions.tap <=> "tap" \in CalledBefore("resultSelector"))
             /\ CalledBefore("set") = {"resultSelector"} \cup CalledBefore("resultSelector"))
  /\ [][\A el \in Elements, n \in EventNames :
          Dispatch(el, n, NewEvent)
            => IF <<el, n>> \in registered
                 THEN delivered' = NewEvent /\ eventSignal' = HeldFor(NewEvent)
                 ELSE delivered' = delivered /\ eventSignal' = eventSignal]_evars

\* with tap and resultSelector supplied and an initial value given, a second
\* event was delivered
C20_Witness ==
  /\ eOptions.tap /\ eOptions.resultSelector = "select"
  /\ eOptions.initialValue # Undefined
  /\ delivered = "ev2" /\ eventSignal = Selected("ev2")
  /\ calls = <<"tap", "resultSelector", "set">>

\* the closure variables of the event signal and what the elements hold
EventState ==
  <<eventSignal, activatorAttached, listening, activatorEffectRef,
    activatorSubscription, activatorProxy, throttled, previousListenerTarget,
    previousEventName, updaters, dirty, registered>>

\* C21: deactivate() never throws; called when no activator is attached
\* (never attached, or deactivated already) it calls removeEventListener on no
\* target and leaves the signal not attached and everything else as it was, so
\* a second deactivate() changes nothing.
C21_DeactivateIsIdempotent ==
  [][Deactivate
       => /\ eLast'.threw = "no"
          /\ ~activatorAttached'
          /\ ~activatorAttached
               => /\ eLast'.removed = {}
                  /\ EventState' = EventState]_evars

\* deactivate() was called a second time, with a listener registered before
\* the first
C21_Witness ==
  /\ eLast = EOp("deactivateDetached", "no", {})
  /\ phase = "deactivated"
  /\ ~activatorAttached /\ ~listening
  /\ delivered # NoEvent

\* nothing was done with the cell: no operation after bindable()
Untouched ==
  /\ bLast.op = "create"
  /\ ~bound /\ effectRef = 0 /\ subscription = 0 /\ handles = {}
  /\ bindableSignal = InitialValue

\* C22: bindable() with manualCleanup = true together with a destroyRef or an
\* injector throws and no cell is created (nothing can be bound, ever);
\* manualCleanup = true alone succeeds.
C22_ManualCleanupExcludesLifetime ==
  /\ []((options.manualCleanup /\ (options.destroyRef \/ options.injector))
          => ~created /\ bLast.threw /\ Untouched)
  /\ []((options.manualCleanup /\ ~options.destroyRef /\ ~options.injector)
          => created /\ (bLast.op = "create" => ~bLast.threw))

\* bindable() threw for manualCleanup with a destroyRef
C22_Witness ==
  /\ options.manualCleanup /\ options.destroyRef /\ ~options.injector
  /\ bLast = BOp("create", NoSource, NoArg, TRUE)

\* C23: bindable() with neither destroyRef, injector nor manualCleanup throws
\* when it is called outside an injection context and succeeds, capturing the
\* injector of the context, inside one; outside an injection context it
\* succeeds whenever exactly one of destroyRef, injector and manualCleanup =
\* true is supplied.
C23_AmbientContextRequired ==
  /\ []((~options.destroyRef /\ ~options.injector /\ ~options.manualCleanup)
          => /\ created <=> inInjectionContext
             /\ injector <=> inInjectionContext
             /\ ~inInjectionContext => bLast.threw /\ Untouched)
  /\ []((/\ ~inInjectionContext
         /\ Cardinality({f \in {"destroyRef", "injector", "manualCleanup"} :
                           options[f]}) = 1)
          => created /\ (bLast.op = "create" => ~bLast.threw))

\* bindable() threw outside an injection context with no option given
C23_Witness ==
  /\ ~options.destroyRef /\ ~options.injector /\ ~options.manualCleanup
  /\ ~inInjectionContext
  /\ bLast = BOp("create", NoSource, NoArg, TRUE)

\* the cell was created with manualCleanup = true or with a destroyRef and no
\* injector
NoLifetimeReference ==
  created /\ (options.manualCleanup \/ (options.destroyRef /\ ~options.injector))

\* C24: bindTo(signal) on an unbound cell created with manualCleanup = true or
\* with only a destroyRef throws, also when the cell was created in an
\* injection context; the throw creates no effect and leaves the cell unbound
\* with its value unchanged, and a following bindTo(stream) succeeds.
C24_BindToSignalNeedsInjector ==
  [][ /\ \A c \in Cells, late \in LateOutcomes :
           (NoLifetimeReference /\ ~bound /\ BindTo(c, FALSE, late))
             => /\ bLast' = BOp("bindTo", c, "plain", TRUE)
                /\ ~bound' /\ effectRef' = 0 /\ handles' = handles
                /\ bindableSignal' = bindableSignal
      /\ \A s \in Streams, late \in LateOutcomes :
           ( /\ NoLifetimeReference
             /\ bLast.op = "bindTo" /\ bLast.src \in Cells /\ bLast.threw
             /\ ~bound
             /\ BindTo(s, FALSE, late) )
             => /\ bLast' = BOp("bindTo", s, "plain", FALSE)
                /\ bound' /\ subscription' # 0
    ]_bvars

\* bindTo(signal) threw on an unbound cell created with a destroyRef in an
\* injection context
C24_Witness ==
  /\ options.destroyRef /\ ~options.injector /\ inInjectionContext
  /\ bLast = BOp("bindTo", "sigA", "plain", TRUE)
  /\ ~bound /\ nextId = 1

\* the live effect of the current binding
BoundEffect == {h \in handles : h.id = effectRef /\ h.kind = "effect"}

\* C25 (as stated): for every cell created with options.injector supplied and
\* manualCleanup not set, in or outside an injection context, with or without
\* options.destroyRef, bindTo(signal) on the unbound cell (its scope alive)
\* does not throw, and once the effect it created has run the held value is
\* the value of the source.
C25_InjectorAllowsBindToSignal ==
  [][ /\ \A c \in Cells, late \in LateOutcomes :
           ( /\ created /\ options.injector /\ ~options.manualCleanup
             /\ ~bound /\ ~destroyed
             /\ BindTo(c, FALSE, late) )
             => /\ bLast' = BOp("bindTo", c, "plain", FALSE)
                /\ bound' /\ BoundEffect' # {}
      /\ \A h \in BoundEffect :
           (options.injector /\ RunEffect(h))
             => bindableSignal' = cellVal[boundSrc]
    ]_bvars

\* the cell is bound to a stream that has terminated
BoundToTerminated ==
  created /\ bound /\ effectRef = 0 /\ boundSrc \in Streams \cap streamDone

\* C26 (as stated): when the bound stream errors or terminates otherwise, the
\* binding is over and the cell is as good as unbound: no subscription to the
\* stream remains alive, and bindTo(newSource) succeeds and makes newSource
\* drive the held value.
C26_TerminatedStreamUnbinds ==
  /\ [](BoundToTerminated => \A h \in handles : h.id # subscription)
  /\ [][\A s \in Streams \ streamDone, late \in LateOutcomes :
          (BoundToTerminated /\ ~destroyed /\ BindTo(s, FALSE, late))
            => /\ bLast' = BOp("bindTo", s, "plain", FALSE)
               /\ bound' /\ boundSrc' = s]_bvars

\* C27: unbind() on a cell whose bound stream has terminated by itself does
\* not throw and leaves the cell unbound; a termination of the stream after
\* unbind() does not throw either and touches nothing of the cell; in both
\* orders the held value stays the last value delivered.
C27_UnbindAndTerminationCommute ==
  [][ /\ (BoundToTerminated /\ Unbind)
           => /\ bLast' = BOp("unbind", boundSrc, NoArg, FALSE)
              /\ ~bound' /\ subscription' = 0 /\ effectRef' = 0
              /\ bindableSignal' = bindableSignal
      /\ \A s \in Streams :
           ( /\ bLast = BOp("unbind", s, NoArg, FALSE)
             /\ Terminate(s) )
             => /\ ~bLast'.threw
                /\ ~bound' /\ subscription' = 0 /\ effectRef' = 0
                /\ handles' = handles
                /\ bindableSignal' = bindableSignal
    ]_bvars

\* unbind() was called after the bound stream delivered a value and terminated
C27_Witness ==
  /\ bLast = BOp("unbind", "subject", NoArg, FALSE)
  /\ "subject" \in streamDone
  /\ bindableSignal = "newValue"
  /\ ~bound

\* the cell is bound to the stream s, which has not terminated, and the
\* scope the binding is tied to is alive
BoundToStream(s) ==
  /\ created /\ bound /\ effectRef = 0 /\ boundSrc = s
  /\ s \in Streams \ streamDone
  /\ ~destroyed

\* C28: while a cell is bound to a stream, every emission of the stream is
\* written to the held value as it is delivered: after each emission the held
\* value is the value emitted, so after v1..vn the cell reads vn.
C28_EmissionsAppliedInOrder ==
  /\ [][\A s \in Streams, v \in Vals :
          (BoundToStream(s) /\ Emit(s, v)) => bindableSignal' = v]_bvars
  /\ []((bLast.op = "emit" /\ BoundToStream(bLast.src))
          => bindableSignal = bLast.arg)

\* the stream the cell is bound to emitted a new value
C28_Witness ==
  /\ BoundToStream("subject")
  /\ bLast = BOp("emit", "subject", "newValue", FALSE)
  /\ bindableSignal = "newValue"

\* the cell is bound to the signal c and the scope of the effect is alive
BoundToCell(c) ==
  /\ created /\ bound /\ effectRef # 0 /\ boundSrc = c
  /\ c \in Cells
  /\ ~destroyed

\* C29: while a cell is bound to a signal, the held value eventually equals
\* the source's value: bindTo and every later change of the source schedule
\* the effect, the effect runs, and once it has run the held value is the
\* latest value of the source.
C29_FollowsSourceSignal ==
  /\ \A c \in Cells :
       [](BoundToCell(c)
            => /\ BoundEffect # {}
               /\ \A h \in BoundEffect : ~h.dirty => bindableSignal = cellVal[c])
  /\ \A c \in Cells :
       BoundToCell(c) ~> (~BoundToCell(c) \/ bindableSignal = cellVal[c])

\* the source changed after bindTo and the effect has run since
C29_Witness ==
  /\ BoundToCell("sigA")
  /\ bLast = BOp("run", "sigA", NoArg, FALSE)
  /\ cellVal["sigA"] = "newValue"
  /\ bindableSignal = "newValue"

\* what bindTo can change of the cell
BindingState ==
  <<bound, effectRef, subscription, handles, nextId, bindableSignal, boundSrc>>

\* C30: bindTo called while a derived computation is being evaluated throws
\* before anything else happens: no subscription and no effect is created and
\* the bound state and the held value are unchanged, whether the cell was
\* bound or not.
C30_BindToInReactiveContextThrows ==
  [][\A src \in Sources, late \in LateOutcomes :
       (created /\ BindTo(src, TRUE, late))
         => /\ bLast' = BOp("bindTo", src, "reactive", TRUE)
            /\ BindingState' = BindingState]_bvars

\* bindTo was called in a reactive context on a cell bound to a stream
C30_Witness ==
  /\ bLast = BOp("bindTo", "sigA", "reactive", TRUE)
  /\ bound /\ boundSrc = "subject" /\ subscription # 0
  /\ Cardinality(handles) = 1

\* C31 (as stated): delivery is asynchronous relative to the call that made
\* the binding: for a stream and for a signal alike, the held value when
\* bindTo returns is the value from before the call; the first value of the
\* source is written in a later step.
C31_BindToDeliversLater ==
  [][\A src \in Sources, late \in LateOutcomes :
       BindTo(src, FALSE, late) => bindableSignal' = bindableSignal]_bvars

\* C31 (amended): bindTo on a signal, or on a stream that emits nothing when
\* it is subscribed to, returns with the held value as it was before the call,
\* and the first value of the source is written in a later step; bindTo on a
\* stream that emits on subscription (a BehaviorSubject) returns with the
\* stream's current value written, when the subscription it made is live.
C31_BindToDeliversLaterUnlessReplayed ==
  [][\A src \in Sources, late \in LateOutcomes :
       BindTo(src, FALSE, late)
         => bindableSignal' =
              (IF src = "behavior" /\ ~bLast'.threw
                  /\ (\E h \in handles' : h.id = subscription' /\ h.src = src)
               THEN streamCur ELSE bindableSignal)]_bvars

\* the first bindTo, on a BehaviorSubject holding a new value, has returned
C31_Witness ==
  /\ bLast = BOp("bindTo", "behavior", "plain", FALSE)
  /\ nextId = 2 /\ bound
  /\ streamCur = "newValue" /\ bindableSignal = "newValue"

\* ========================================== claims, toBehaviorObservable
\* C32 (as stated): every subscription to the stream (the first one, a second
\* one while another is active, one made after all earlier subscribers left),
\* the injector alive, synchronously receives as its first value the value the
\* source signal has when it subscribes, also when the signal was changed just
\* before.
C32_FirstValueIsCurrent ==
  [][\A o \in Observables, k \in Subscribers, late \in LateOutcomes :
       (~oDestroyed /\ Subscribe(o, k, late))
         => /\ Len(subscribers'[o][k].got) = 1
            /\ subscribers'[o][k].got[1].val = source]_ovars

\* the states of the source signal a subscriber received, in order
Versions(o, k) ==
  [i \in 1..Len(subscribers[o][k].got) |-> subscribers[o][k].got[i].ver]

\* C33: the stream never emits twice in a row for one state of the source
\* signal: the states a subscriber received values for are strictly
\* increasing (so the initial value is received once and the first run of
\* the watcher does not repeat it), and a run of the watcher delivers at
\* most one value, the current one, to every current subscriber of its
\* stream and nothing to the subscribers of the other streams.
C33_NeverEmitsTwiceForOneState ==
  /\ [](\A o \in Observables, k \in Subscribers :
          \A i \in 1..(Len(subscribers[o][k].got) - 1) :
            Versions(o, k)[i] < Versions(o, k)[i + 1])
  /\ [][\A o \in Observables :
          RunWatcher(o)
            => /\ \A p \in Observables \ {o} : subscribers'[p] = subscribers[p]
               /\ \/ subscribers'[o] = subscribers[o]
                  \/ \A k \in Subscribers :
                       subscribers'[o][k].got =
                         IF k \in Active(o)
                         THEN Append(subscribers[o][k].got,
                                     Emission(source, sourceVersion))
                         ELSE subscribers[o][k].got]_ovars

\* C33 witness: two subscribers share one stream, a second stream was made
\* from the same signal, the signal changed and every watcher has run
C33_Witness ==
  /\ \A o \in Observables : watcher[o] = "idle"
  /\ \A k \in Subscribers : subscribers["obs1"][k].state = "on"
  /\ Len(subscribers["obs1"]["sub1"].got) = 2
  /\ Len(subscribers["obs1"]["sub2"].got) = 2
  /\ Len(subscribers["obs2"]["sub1"].got) = 2
  /\ sourceVersion = 1

\* C34: when the injector that owns the streams is destroyed every current
\* subscriber completes and keeps what it received; from then on no
\* subscriber is subscribed, a change of the source signal or a run of a
\* watcher delivers nothing, and a subscriber that arrives later completes
\* or fails within its subscribe call with at most one value.
C34_TeardownCompletesAndSilences ==
  /\ [][OTeardown =>
          \A o \in Observables, k \in Subscribers :
            subscribers'[o][k] =
              IF subscribers[o][k].state = "on"
              THEN [state |-> "completed", got |-> subscribers[o][k].got]
              ELSE subscribers[o][k]]_ovars
  /\ [](oDestroyed => \A o \in Observables : Active(o) = {})
  /\ [][oDestroyed =>
          \A o \in Observables, k \in Subscribers :
            \/ subscribers'[o][k] = subscribers[o][k]
            \/ /\ subscribers[o][k].state = "off"
               /\ subscribers'[o][k].state \in {"completed", "errored"}
               /\ Len(subscribers'[o][k].got) <= 1]_ovars

\* C34 witness: a subscriber that had received a value and a change was
\* completed by the teardown, and the source signal changed afterwards
C34_Witness ==
  /\ oDestroyed
  /\ destroyedAt = 1
  /\ sourceVersion = 2
  /\ subscribers["obs1"]["sub1"].state = "completed"
  /\ Len(subscribers["obs1"]["sub1"].got) = 2

\* ------------------------------------------------------ claims, lazyStartWith

\* the values a subscription has received from the source so far
FromSource(k) == SubSeq(lSource, 1, lSubs[k].pos)

\* C35: evaluating the pipe does not call the factory; every subscribe
\* call calls it exactly once, and nothing else calls it; the subscriber
\* then holds the value the factory returned at that moment, or, if the
\* factory threw, the error and no value; a subscriber always holds the
\* factory's value followed by the source's values in order, all of them
\* once it completed (the factory's value alone for an empty source).
C35_LazyStartWith ==
  /\ [][Pipe => callCounter' = callCounter]_lvars
  /\ [][\A k \in LSubscribers :
          LSubscribe(k)
            => /\ callCounter' = callCounter + 1
               /\ lSubs'[k] =
                    IF factory.throws
                    THEN [state |-> "errored", got |-> <<>>, pos |-> 0]
                    ELSE [state |-> "on", got |-> <<factory.value>>,
                          pos |-> 0]]_lvars
  /\ [][callCounter' # callCounter
          => \E k \in LSubscribers :
               lSubs[k].state # "on" /\ lSubs'[k].state \in {"on", "errored"}
               /\ lSubs'[k].pos = 0]_lvars
  /\ [](\A k \in LSubscribers :
          /\ lSubs[k].state \in {"off", "errored"} => lSubs[k].got = <<>>
          /\ lSubs[k].state \in {"on", "completed"}
               => /\ Len(lSubs[k].got) = 1 + lSubs[k].pos
                  /\ lSubs[k].got[1] \in FactoryVals
                  /\ SubSeq(lSubs[k].got, 2, Len(lSubs[k].got)) = FromSource(k)
          /\ lSubs[k].state = "completed" => FromSource(k) = lSource)

\* C35 witness: two subscriptions of one pipe started with different
\* values of the factory and both received the whole source; a third
\* subscription failed because the factory threw
C35_Witness ==
  /\ callCounter = 3
  /\ lSource = <<1, 2, 3>>
  /\ lSubs["first"].state = "completed"
  /\ lSubs["first"].got = <<42, 1, 2, 3>>
  /\ lSubs["second"].state = "errored"
  /\ factory.throws

\* ------------------------------------------------------ claims, signal store features

\* the store class uses withOptionalHooks
HasOptionalHooks == \E i \in 1..Len(features) : features[i] = "withOptionalHooks"

IsOtherFeature(f) == f # "withOptionalHooks"

\* C36: when a store with withOptionalHooks(hooks) is created, hooks.onInit
\* is called once if DISABLE_HOOKS is not provided or falsy and not at all
\* if it is truthy; when the injector of a created store is destroyed,
\* hooks.onDestroy is called once in the first case and not at all in the
\* second; with a truthy DISABLE_HOOKS neither hook is ever called and the
\* store has exactly the hooks it would have without the feature.
C36_OptionalHooks ==
  /\ [][(CreateStore /\ HasOptionalHooks /\ storeState' = "created")
          => /\ initCalled' =
                  IF hooks.onInit /\ disableHooks # "true" THEN 1 ELSE 0
             /\ destroyCalled' = 0]_svars
  /\ [][(DestroyInjector /\ HasOptionalHooks /\ storeState = "created")
          => destroyCalled' =
               IF hooks.onDestroy /\ disableHooks # "true" THEN 1 ELSE 0]_svars
  /\ [](disableHooks = "true"
          => /\ initCalled = 0
             /\ destroyCalled = 0
             /\ storeState # "none"
                  => innerStore =
                       ApplyFeatures(SelectSeq(features, IsOtherFeature),
                                     EmptyStore))

\* C36 witness: a store with both hooks, created where DISABLE_HOOKS is
\* provided as false, whose injector was destroyed: each hook ran once
C36_Witness ==
  /\ HasOptionalHooks
  /\ hooks = [onInit |-> TRUE, onDestroy |-> TRUE]
  /\ disableHooks = "false"
  /\ storeState = "created"
  /\ sDestroyed
  /\ initCalled = 1
  /\ destroyCalled = 1

\* C37: instantiating a store that uses withRootGuard throws the root
\* guard's error exactly when the injector it is instantiated in is not
\* the root injector; in the root injector the store is created.
C37_RootGuardThrowsOutsideRoot ==
  [][(CreateStore /\ \E i \in 1..Len(features) : features[i] = "withRootGuard")
       => IF currentInjector = "root"
          THEN thrown' = NoError /\ storeState' = "created"
          ELSE thrown' = RootGuardError /\ storeState' = "failed"]_svars

\* C37 witness: a guarded store whose instantiation in a module's injector
\* threw the error
C37_Witness ==
  /\ features = <<"withRootGuard", "withOptionalHooks">>
  /\ currentInjector = "module"
  /\ storeState = "failed"
  /\ thrown = RootGuardError

\* the teardown callbacks the cell's stream subscriptions hold with the
\* DestroyRef (takeUntilDestroyed registers one when subscribed to and
\* removes it when the subscription closes)
TeardownCallbacks == {h \in handles : h.kind = "sub" /\ h.auto}

\* C38: the cell never holds more than one teardown callback with the
\* DestroyRef; while the DestroyRef is alive, a cell in automatic mode that
\* holds a subscription to a stream that has not terminated holds exactly
\* one, for that subscription; an unbound cell (before the first bindTo or
\* after unbind()), a cell whose stream terminated and a manualCleanup cell
\* hold none.
C38_OneTeardownCallback ==
  [](/\ Cardinality(TeardownCallbacks) <= 1
     /\ (~destroyed /\ ~options.manualCleanup /\ bound /\ subscription # 0
           /\ boundSrc \notin streamDone)
          => \E h \in handles : TeardownCallbacks = {h} /\ h.id = subscription
                                /\ h.src = boundSrc
     /\ ~bound => TeardownCallbacks = {}
     /\ (bound /\ boundSrc \in streamDone) => TeardownCallbacks = {}
     /\ options.manualCleanup => TeardownCallbacks = {})

\* C38 witness: a cell in automatic mode was bound to a stream, unbound and
\* bound to a stream again, and holds one teardown callback
C38_Witness ==
  /\ ~options.manualCleanup
  /\ ~destroyed
  /\ nextId = 3
  /\ bound /\ subscription = 2
  /\ prevSrc \in Streams /\ boundSrc \in Streams \ streamDone
  /\ Cardinality(TeardownCallbacks) = 1

\* C39: the teardown of the injector leaves no listener added, no live
\* activator subscription or effect, no scheduled effect and no scheduled
\* re-attachment; after it, dispatched events, gate flips, target changes,
\* event-name changes and what the scheduler and the timer still run neither
\* change the held value nor add a listener.
C39_TeardownCancelsEverything ==
  /\ [][ETeardown => /\ registered' = {}
                     /\ updaters' = {}
                     /\ dirty' = {}
                     /\ ~throttled']_evars
  /\ [][(eDestroyed /\ eLast'.op = "other")
          => /\ eventSignal' = eventSignal
             /\ registered' \subseteq registered]_evars

\* C40: the held value changes only when eventListener runs for a
\* dispatched event: attachActivator (accepted, throwing or refused),
\* deactivate, gate flips, target and event-name changes, the effects and
\* the re-attachment the scheduler and the timer run, and teardown leave it
\* as it is; deactivate() does not put the initial value back.
C40_OnlyDeliveryChangesValue ==
  /\ [][eventSignal' # eventSignal
          => \E el \in Elements, n \in EventNames :
               /\ Dispatch(el, n, NewEvent)
               /\ <<el, n>> \in registered]_evars
  /\ [][(Deactivate \/ ETeardown) => eventSignal' = eventSignal]_evars

\* C40 witness: an event was delivered and set the held value, and the
\* event signal was deactivated afterwards: the value is still the event's
C40_Witness ==
  /\ eLast.op = "deactivate"
  /\ delivered # NoEvent
  /\ eventSignal = delivered
  /\ eventSignal # eOptions.initialValue

====
